---- MODULE Spec2Model ----
(***************************************************************************)
(* ACE Superstore sales analysis (src/sales_analysis.py): the batch        *)
(* pipeline of main() as a state machine.                                  *)
(*                                                                         *)
(* Tables (DataFrames) are sequences of records, one record per row, one   *)
(* field per column.  Text values are strings; a null cell (None / NaN in  *)
(* an object column) is the reserved token NA.  Money columns hold         *)
(* integers (hundredths of the currency unit), so a sum of them has at     *)
(* most two decimals and DataFrame.round(2) leaves it as it is.  A float   *)
(* that need not be a multiple of 0.01 (a profit margin, a mean) is an     *)
(* exact rational or one of the IEEE specials NaN, +inf, -inf; binary      *)
(* rounding error of finite floats is not modelled.                        *)
(***************************************************************************)
EXTENDS Integers, Sequences, FiniteSets, TLC

VARIABLES
    pc,                   \* position of main()
    sales_file,           \* rows of 'Ace Superstore Retail Dataset(in).csv'
    stores_file,          \* rows of 'Store Locations(Store Locations).csv'
    stable_sort,          \* whether this build's quicksort keeps equal keys in order
    sales_df,             \* main's sales_df object (mutable DataFrame)
    stores_df,            \* main's stores_df object
    df,                   \* the enriched table returned by clean_and_prepare_data
    regional_summary,
    segment_summary,
    product_revenue,
    top_products,
    bottom_products,
    category_margins,
    order_mode_analysis,
    report,               \* the report's computed fields, once generated
    written,              \* output artifacts written so far
    error                 \* the exception that ended the run, or "none"

vars == <<pc, sales_file, stores_file, stable_sort, sales_df, stores_df, df, regional_summary,
          segment_summary, product_revenue, top_products, bottom_products,
          category_margins, order_mode_analysis, report, written, error>>

-----------------------------------------------------------------------------
(* Bounds of the model. *)

MaxRegionRows == 2    \* transaction rows in the region input set
MaxStores == 2        \* rows of the store table in the region input set
MaxSegmentRows == 2   \* transaction rows in the category input set
MaxMarginRows == 2    \* transaction rows in the price input set
MaxChannelRows == 3   \* transaction rows in the channel input set
MaxProductRows == 6   \* transaction rows in the product input set

-----------------------------------------------------------------------------
(* Values. *)

NA == "<NA>"

notna(x) == x # NA

\* Every text value of the model in Python's str order (code points).
NameOrder ==
    <<"", "<NA>", "Apples", "BA1", "Bath", "Beauty", "Bread", "Chairs", "Cloth",
      "Clothing", "Clothing - Men", "Drills", "East", "Eggs", "Electronics",
      "Fashion", "Foo", "Food", "Food & Beverages", "Food-Snacks", "Forks", "Gloves",
      "Grooming", "Health", "Health & Beauty", "Healthcare", "Home", "Home & Living",
      "Home Appliances", "Homeware", "In-Store", "Kitchen", "LS1", "Leeds", "North",
      "Online", "Other", "Phone", "South", "YO1", "York", "food">>

StrRank(s) == CHOOSE i \in 1..Len(NameOrder) : NameOrder[i] = s

StrLess(a, b) == StrRank(a) < StrRank(b)

startswith(x, prefix) ==
    /\ Len(x) >= Len(prefix)
    /\ SubSeq(x, 1, Len(prefix)) = prefix

\* Floats: [k |-> "num", n |-> numerator, d |-> denominator > 0], or a special.
Num(n, d) == [k |-> "num", n |-> n, d |-> d]
NaN == [k |-> "nan", n |-> 0, d |-> 1]
PosInf == [k |-> "pinf", n |-> 0, d |-> 1]
NegInf == [k |-> "ninf", n |-> 0, d |-> 1]

IsFinite(x) == x.k = "num"

Abs(i) == IF i < 0 THEN -i ELSE i

RECURSIVE GCD(_, _)
GCD(a, b) == IF b = 0 THEN a ELSE GCD(b, a % b)

Reduce(n, d) ==
    LET g == GCD(Abs(n), d) IN Num(n \div g, d \div g)

\* Float division a / b of two integers (numpy: x/0 is +-inf, 0/0 is NaN).
FloatDiv(a, b) ==
    IF b = 0 THEN (IF a = 0 THEN NaN ELSE IF a > 0 THEN PosInf ELSE NegInf)
    ELSE IF b > 0 THEN Reduce(a, b)
    ELSE Reduce(-a, -b)

\* x * m for a float x and an integer m > 0.
FloatScale(x, m) == IF IsFinite(x) THEN Reduce(x.n * m, x.d) ELSE x

\* IEEE addition.
FloatAdd(x, y) ==
    IF x.k = "nan" \/ y.k = "nan" THEN NaN
    ELSE IF IsFinite(x) /\ IsFinite(y) THEN Reduce(x.n * y.d + y.n * x.d, x.d * y.d)
    ELSE IF IsFinite(x) THEN y
    ELSE IF IsFinite(y) THEN x
    ELSE IF x.k = y.k THEN x
    ELSE NaN

\* x < y on floats; every comparison with NaN is false.
FloatLess(x, y) ==
    /\ x.k # "nan"
    /\ y.k # "nan"
    /\ \/ x.k = "ninf" /\ y.k # "ninf"
       \/ y.k = "pinf" /\ x.k # "pinf"
       \/ IsFinite(x) /\ IsFinite(y) /\ x.n * y.d < y.n * x.d

FloatLeq(x, y) ==
    /\ x.k # "nan"
    /\ y.k # "nan"
    /\ ~FloatLess(y, x)

\* The integer nearest p / q (q > 0), halves to the even one (numpy's round).
RoundHalfEven(p, q) ==
    LET fl == p \div q
        r == p - q * fl
    IN  IF 2 * r < q THEN fl
        ELSE IF 2 * r > q THEN fl + 1
        ELSE IF fl % 2 = 0 THEN fl ELSE fl + 1

\* .round(2) of a float: specials stay; a finite value becomes a multiple of 0.01.
Round2(x) ==
    IF IsFinite(x) THEN Reduce(RoundHalfEven(100 * x.n, x.d), 100) ELSE x

Int2Float(i) == Num(i, 1)

-----------------------------------------------------------------------------
(* clean_and_prepare_data *)

\* DerivedColumns with the subtraction of line 53 the wrong way round.
DerivedColumns_CostMinusSales(row) ==
    LET Revenue == row.Cost - row.Sales
    IN  row @@ [Revenue |-> Revenue,
                ProfitMargin |-> FloatScale(FloatDiv(Revenue, row.Sales), 100),
                TotalRevenue |-> Revenue * row.Quantity,
                TotalSales |-> row.Sales * row.Quantity]

\* Lines 52-62: the derived columns, assigned on the caller's DataFrame.
DerivedColumns(row) ==
    LET Revenue == row.Sales - row.Cost
    IN  row @@ [Revenue |-> Revenue,
                ProfitMargin |-> FloatScale(FloatDiv(Revenue, row.Sales), 100),
                TotalRevenue |-> Revenue * row.Quantity,
                TotalSales |-> row.Sales * row.Quantity]

AssignDerived(table) == [i \in 1..Len(table) |-> DerivedColumns(table[i])]

\* The store rows whose (City, Postal Code) equals the row's, in store order.
MatchingStores(row, stores) ==
    SelectSeq(stores, LAMBDA s : s.City = row.City /\ s.Postal = row.Postal)

\* One left row of the merge: one output row per matching store row, or one
\* row with a null Region_store when none matches (how='left').
MergeRow(row, stores) ==
    LET m == MatchingStores(row, stores)
    IN  IF Len(m) = 0 THEN <<row @@ [Region_store |-> NA]>>
        ELSE [j \in 1..Len(m) |-> row @@ [Region_store |-> m[j].Region]]

RECURSIVE MergeFrom(_, _, _)
MergeFrom(table, stores, i) ==
    IF i > Len(table) THEN <<>>
    ELSE MergeRow(table[i], stores) \o MergeFrom(table, stores, i + 1)

\* Lines 65-68.
MergeLeft(table, stores) == MergeFrom(table, stores, 1)

\* fillna with the two columns exchanged: Region.fillna(Region_store).
fillna_OriginalFirst(value, other) == IF other # NA THEN other ELSE value

\* Line 71: Region_store.fillna(Region).
fillna(value, other) == IF notna(value) THEN value ELSE other

RegionFinal(row) == fillna(row.Region_store, row.Region)

\* Segment with the prefix tests written as equalities.
Segment_ExactMatch(x) ==
    IF notna(x) /\ x = "Food" THEN "Food & Beverages"
    ELSE IF notna(x) /\ x \in {"Home", "Kitchen", "Home Appliances"} THEN "Home & Living"
    ELSE IF notna(x) /\ x \in {"Health", "Beauty", "Grooming"} THEN "Health & Beauty"
    ELSE IF notna(x) /\ x = "Clothing" THEN "Fashion"
    ELSE "Other"

\* Lines 73-78: the lambda applied to Category.
Segment(x) ==
    IF notna(x) /\ startswith(x, "Food") THEN "Food & Beverages"
    ELSE IF notna(x) /\ x \in {"Home", "Kitchen", "Home Appliances"} THEN "Home & Living"
    ELSE IF notna(x) /\ x \in {"Health", "Beauty", "Grooming"} THEN "Health & Beauty"
    ELSE IF notna(x) /\ startswith(x, "Clothing") THEN "Fashion"
    ELSE "Other"

Enrich(table, stores) ==
    LET merged == MergeLeft(table, stores)
    IN  [i \in 1..Len(merged) |->
            merged[i] @@ [Region_Final |-> RegionFinal(merged[i]),
                          Segment |-> Segment(merged[i].Category)]]

-----------------------------------------------------------------------------
(* groupby / agg / sort_values / head *)

Range(seq) == {seq[i] : i \in 1..Len(seq)}

Min(a, b) == IF a < b THEN a ELSE b

RECURSIVE SumInts(_)
SumInts(seq) == IF Len(seq) = 0 THEN 0 ELSE Head(seq) + SumInts(Tail(seq))

RECURSIVE SumFloats(_)
SumFloats(seq) ==
    IF Len(seq) = 0 THEN Int2Float(0) ELSE FloatAdd(Head(seq), SumFloats(Tail(seq)))

\* mean() skips NaN; the mean of no value is NaN.
FloatMean(seq) ==
    LET vals == SelectSeq(seq, LAMBDA x : x.k # "nan")
        total == SumFloats(vals)
    IN  IF Len(vals) = 0 THEN NaN
        ELSE IF IsFinite(total) THEN Reduce(total.n, total.d * Len(vals))
        ELSE total

\* A Discount cell holds hundredths (10 is the rate 0.10).
DiscountFloat(c) == Reduce(c, 100)

Column(rows, name) == [i \in 1..Len(rows) |-> rows[i][name]]

MeanDiscount(rows) ==
    FloatMean([i \in 1..Len(rows) |-> DiscountFloat(rows[i].Discount)])

\* 'count' of Order ID: the non-null cells.
CountOrders(rows) == Len(SelectSeq(rows, LAMBDA r : notna(r.OrderID)))

\* The elements of a finite set of strings in str order (groupby sorts its keys).
RECURSIVE SortStrings(_)
SortStrings(S) ==
    IF S = {} THEN <<>>
    ELSE LET m == CHOOSE a \in S : \A b \in S : a = b \/ StrLess(a, b)
         IN  <<m>> \o SortStrings(S \ {m})

\* The non-null values of a column, sorted: the groups of groupby(col).
GroupKeys(table, col) ==
    SortStrings({table[i][col] : i \in 1..Len(table)} \ {NA})

GroupRows(table, col, key) == SelectSeq(table, LAMBDA r : r[col] = key)

\* The arrangements of the rows S in the order of the key column keyOf (a
\* function on S, no NaN in it), rows with equal keys in any order.
RECURSIVE Arrangements(_, _, _)
Arrangements(S, keyOf, ascending) ==
    IF S = {} THEN {<<>>}
    ELSE LET first == {r \in S : \A q \in S :
                          IF ascending THEN ~FloatLess(keyOf[q], keyOf[r])
                          ELSE ~FloatLess(keyOf[r], keyOf[q])}
         IN  UNION {{<<r>> \o rest : rest \in Arrangements(S \ {r}, keyOf, ascending)}
                    : r \in first}

IndexIn(frame, r) == CHOOSE i \in 1..Len(frame) : frame[i] = r

\* Rows with equal keys are in the order they have in the frame.  pandas
\* sorts descending by reversing, sorting ascending and reversing again, so a
\* sort that keeps ties in order does so in both directions.
TiesInFrameOrder(a, frame, keyOf) ==
    \A i, j \in 1..Len(a) :
        i < j /\ keyOf[a[i]] = keyOf[a[j]] => IndexIn(frame, a[i]) < IndexIn(frame, a[j])

\* sort_values(by, ascending): the rows with a NaN key go last, in frame
\* order.  On a build whose quicksort is an insertion sort for a short array
\* the ties stay in frame order; otherwise (introsort, SIMD sorting networks)
\* they come in any order.
SortValues(frame, keyOf, ascending) ==
    LET nans == SelectSeq(frame, LAMBDA r : keyOf[r].k = "nan")
        rest == {r \in Range(frame) : keyOf[r].k # "nan"}
    IN  {a \o nans : a \in {b \in Arrangements(rest, keyOf, ascending) :
                                  stable_sort => TiesInFrameOrder(b, frame, keyOf)}}

head(frame, n) == SubSeq(frame, 1, Min(n, Len(frame)))

-----------------------------------------------------------------------------
(* The aggregate tables.  Each row carries its index value as `key`. *)

\* Lines 111-117 and 124-130: groupby(col).agg(...).round(2).
SummaryFrame(table, col) ==
    LET keys == GroupKeys(table, col)
    IN  [g \in 1..Len(keys) |->
            LET rows == GroupRows(table, col, keys[g])
            IN  [key |-> keys[g],
                 TotalSales |-> SumInts(Column(rows, "TotalSales")),
                 TotalRevenue |-> SumInts(Column(rows, "TotalRevenue")),
                 AvgDiscountRate |-> Round2(MeanDiscount(rows)),
                 OrderCount |-> CountOrders(rows)]]

RevenueKey(frame) == [r \in Range(frame) |-> Int2Float(r.TotalRevenue)]

MarginKey(frame) == [r \in Range(frame) |-> r.ProfitMargin]

PairLess(a, b) ==
    \/ StrLess(a[1], b[1])
    \/ a[1] = b[1] /\ StrLess(a[2], b[2])

RECURSIVE SortPairs(_)
SortPairs(S) ==
    IF S = {} THEN <<>>
    ELSE LET m == CHOOSE a \in S : \A b \in S : a = b \/ PairLess(a, b)
         IN  <<m>> \o SortPairs(S \ {m})

\* The groups of groupby(['Product Name', 'Category']): a null in either
\* column drops the row.
ProductKeys(table) ==
    SortPairs({<<table[i].Product, table[i].Category>> :
                  i \in {j \in 1..Len(table) :
                            notna(table[j].Product) /\ notna(table[j].Category)}})

\* Lines 145-150.
ProductFrame(table) ==
    LET keys == ProductKeys(table)
    IN  [g \in 1..Len(keys) |->
            LET rows == SelectSeq(table, LAMBDA r : <<r.Product, r.Category>> = keys[g])
            IN  [key |-> keys[g],
                 TotalRevenue |-> SumInts(Column(rows, "TotalRevenue")),
                 TotalSales |-> SumInts(Column(rows, "TotalSales")),
                 Quantity |-> SumInts(Column(rows, "Quantity")),
                 ProfitMargin |-> Round2(FloatMean(Column(rows, "ProfitMargin")))]]

\* Lines 170-175.
CategoryFrame(table) ==
    LET keys == GroupKeys(table, "Category")
    IN  [g \in 1..Len(keys) |->
            LET rows == GroupRows(table, "Category", keys[g])
            IN  [key |-> keys[g],
                 ProfitMargin |-> Round2(FloatMean(Column(rows, "ProfitMargin"))),
                 TotalRevenue |-> SumInts(Column(rows, "TotalRevenue")),
                 TotalSales |-> SumInts(Column(rows, "TotalSales")),
                 OrderID |-> CountOrders(rows)]]

\* SharePct without the factor 100.
SharePct_Fraction(part, total) == Round2(FloatDiv(part, total))

\* Lines 197-200: a group's share of the column total, in percent, rounded.
SharePct(part, total) == Round2(FloatScale(FloatDiv(part, total), 100))

\* Lines 189-200.
OrderModeFrame(table) ==
    LET keys == GroupKeys(table, "OrderMode")
        base == [g \in 1..Len(keys) |->
                    LET rows == GroupRows(table, "OrderMode", keys[g])
                    IN  [key |-> keys[g],
                         TotalSales |-> SumInts(Column(rows, "TotalSales")),
                         TotalRevenue |-> SumInts(Column(rows, "TotalRevenue")),
                         OrderID |-> CountOrders(rows),
                         Discount |-> Round2(MeanDiscount(rows))]]
        salesSum == SumInts(Column(base, "TotalSales"))
        revenueSum == SumInts(Column(base, "TotalRevenue"))
    IN  [g \in 1..Len(base) |->
            base[g] @@ [SalesPct |-> SharePct(base[g].TotalSales, salesSum),
                        RevenuePct |-> SharePct(base[g].TotalRevenue, revenueSum)]]

-----------------------------------------------------------------------------
(* generate_insights_report *)

FloatNeg(x) ==
    IF IsFinite(x) THEN Num(-x.n, x.d)
    ELSE IF x.k = "pinf" THEN NegInf
    ELSE IF x.k = "ninf" THEN PosInf
    ELSE NaN

FloatAbs(x) == IF FloatLess(x, Int2Float(0)) THEN FloatNeg(x) ELSE x

Keys(frame) == {frame[i].key : i \in 1..Len(frame)}

Loc(frame, key) == CHOOSE r \in Range(frame) : r.key = key

\* The first exception the report's index lookups raise, in source order:
\* .index[0] on an empty summary (lines 322, 342, 380), .loc of an absent
\* channel (line 397), .index[1] on a one-row summary (lines 412, 417).
ReportError(regional, segment, categories, modes) ==
    IF Len(regional) = 0 \/ Len(segment) = 0 \/ Len(categories) = 0 THEN "IndexError"
    ELSE IF "Online" \notin Keys(modes) \/ "In-Store" \notin Keys(modes) THEN "KeyError"
    ELSE IF Len(regional) < 2 \/ Len(categories) < 2 THEN "IndexError"
    ELSE "none"

\* The computed fields of the report text.
ReportFields(table, regional, segment, top, bottom, categories, modes) ==
    LET online_vs_store ==
            FloatAdd(Loc(modes, "Online").SalesPct,
                     FloatNeg(Loc(modes, "In-Store").SalesPct))
        leader ==
            IF FloatLess(Int2Float(0), online_vs_store) THEN "Online" ELSE "In-Store"
    IN  [orders |-> Len(table),
         total_revenue |-> SumInts(Column(table, "TotalRevenue")),
         total_sales |-> SumInts(Column(table, "TotalSales")),
         top_regions |-> Column(head(regional, 3), "key"),
         leading_region |-> regional[1].key,
         second_region |-> regional[2].key,
         last_region |-> regional[Len(regional)].key,
         top_segments |-> Column(head(segment, 3), "key"),
         top_products |-> Column(top, "key"),
         bottom_products |-> Column(bottom, "key"),
         top_categories |-> Column(head(categories, 5), "key"),
         best_margin |-> categories[1].ProfitMargin,
         avg_margin |-> FloatMean(Column(table, "ProfitMargin")),
         channels |-> Column(modes, "key"),
         online_vs_store |-> online_vs_store,
         leader |-> leader,
         balanced |-> FloatLess(FloatAbs(online_vs_store), Int2Float(10))]

-----------------------------------------------------------------------------
(* main: one action per call, in the order of lines 456-478. *)

Dashboard == "ace_superstore_analysis_dashboard.png"
RegionalHtml == "regional_performance.html"
MonthlyHtml == "monthly_sales_trend.html"
SunburstHtml == "category_revenue_sunburst.html"
ReportFile == "ACE_Superstore_Analysis_Report.md"

Inputs == <<sales_file, stores_file, stable_sort>>

Aggregates == <<regional_summary, segment_summary, product_revenue, top_products,
                bottom_products, category_margins, order_mode_analysis>>

\* Line 457.
LoadData ==
    /\ pc = "start"
    /\ sales_df' = sales_file
    /\ stores_df' = stores_file
    /\ pc' = "loaded"
    /\ UNCHANGED <<Inputs, df, Aggregates, report, written, error>>

\* Line 460.  The derived columns are assigned on the DataFrame main passed
\* in (lines 53-62); the merge then builds a new table, which is returned.
CleanAndPrepareData ==
    /\ pc = "loaded"
    /\ sales_df' = AssignDerived(sales_df)
    /\ df' = Enrich(sales_df', stores_df)
    /\ pc' = "prepared"
    /\ UNCHANGED <<Inputs, stores_df, Aggregates, report, written, error>>

\* Line 463: prints only.
ExploratoryAnalysis ==
    /\ pc = "prepared"
    /\ pc' = "explored"
    /\ UNCHANGED <<Inputs, sales_df, stores_df, df, Aggregates,
                   report, written, error>>

\* Line 464.
AnalyzeByRegionSegment ==
    /\ pc = "explored"
    /\ LET regions == SummaryFrame(df, "Region_Final")
           segments == SummaryFrame(df, "Segment")
       IN  /\ regional_summary' \in SortValues(regions, RevenueKey(regions), FALSE)
           /\ segment_summary' \in SortValues(segments, RevenueKey(segments), FALSE)
    /\ pc' = "regions"
    /\ UNCHANGED <<Inputs, sales_df, stores_df, df, product_revenue,
                   top_products, bottom_products, category_margins,
                   order_mode_analysis, report, written, error>>

TopN == 5

\* Line 465.
AnalyzeProducts ==
    /\ pc = "regions"
    /\ LET frame == ProductFrame(df)
       IN  /\ product_revenue' = frame
           /\ \E s \in SortValues(frame, RevenueKey(frame), FALSE) :
                 top_products' = head(s, TopN)
           /\ \E s \in SortValues(frame, RevenueKey(frame), TRUE) :
                 bottom_products' = head(s, TopN)
    /\ pc' = "products"
    /\ UNCHANGED <<Inputs, sales_df, stores_df, df, regional_summary,
                   segment_summary, category_margins, order_mode_analysis, report,
                   written, error>>

\* Line 466.
AnalyzeCategoriesMargins ==
    /\ pc = "products"
    /\ LET frame == CategoryFrame(df)
       IN  category_margins' \in SortValues(frame, MarginKey(frame), FALSE)
    /\ pc' = "categories"
    /\ UNCHANGED <<Inputs, sales_df, stores_df, df, regional_summary,
                   segment_summary, product_revenue, top_products, bottom_products,
                   order_mode_analysis, report, written, error>>

\* Line 467.
AnalyzeOrderMode ==
    /\ pc = "categories"
    /\ order_mode_analysis' = OrderModeFrame(df)
    /\ pc' = "order_mode"
    /\ UNCHANGED <<Inputs, sales_df, stores_df, df, regional_summary,
                   segment_summary, product_revenue, top_products, bottom_products,
                   category_margins, report, written, error>>

\* Line 470, create_visualizations: plt.savefig, line 245.
SaveDashboard ==
    /\ pc = "order_mode"
    /\ written' = written \cup {Dashboard}
    /\ pc' = "dashboard"
    /\ UNCHANGED <<Inputs, sales_df, stores_df, df, Aggregates,
                   report, error>>

\* create_interactive_visualizations, line 261.
WriteRegionalHtml ==
    /\ pc = "dashboard"
    /\ written' = written \cup {RegionalHtml}
    /\ pc' = "html_regional"
    /\ UNCHANGED <<Inputs, sales_df, stores_df, df, Aggregates,
                   report, error>>

\* Line 268.
WriteMonthlyHtml ==
    /\ pc = "html_regional"
    /\ written' = written \cup {MonthlyHtml}
    /\ pc' = "html_monthly"
    /\ UNCHANGED <<Inputs, sales_df, stores_df, df, Aggregates,
                   report, error>>

\* WriteSunburstHtml with the chart file left unwritten.
WriteSunburstHtml_NotWritten ==
    /\ pc = "html_monthly"
    /\ written' = written
    /\ pc' = "visualized"
    /\ UNCHANGED <<Inputs, sales_df, stores_df, df, Aggregates,
                   report, error>>

\* Line 275.
WriteSunburstHtml ==
    /\ pc = "html_monthly"
    /\ written' = written \cup {SunburstHtml}
    /\ pc' = "visualized"
    /\ UNCHANGED <<Inputs, sales_df, stores_df, df, Aggregates,
                   report, error>>

CurrentReportError ==
    ReportError(regional_summary, segment_summary, category_margins, order_mode_analysis)

\* Line 473, when no lookup raises.
GenerateInsightsReport ==
    /\ pc = "visualized"
    /\ CurrentReportError = "none"
    /\ report' = <<ReportFields(df, regional_summary, segment_summary, top_products,
                                bottom_products, category_margins, order_mode_analysis)>>
    /\ pc' = "reported"
    /\ UNCHANGED <<Inputs, sales_df, stores_df, df, Aggregates,
                   written, error>>

\* GenerateInsightsReportRaises with the exception caught and main going on.
GenerateInsightsReportRaises_Caught ==
    /\ pc = "visualized"
    /\ CurrentReportError # "none"
    /\ error' = CurrentReportError
    /\ pc' = "reported"
    /\ UNCHANGED <<Inputs, sales_df, stores_df, df, Aggregates,
                   report, written>>

\* Line 473, when a lookup raises: nothing in main catches it.
GenerateInsightsReportRaises ==
    /\ pc = "visualized"
    /\ CurrentReportError # "none"
    /\ error' = CurrentReportError
    /\ pc' = "failed"
    /\ UNCHANGED <<Inputs, sales_df, stores_df, df, Aggregates,
                   report, written>>

\* Lines 477-478.
SaveReport ==
    /\ pc = "reported"
    /\ written' = written \cup {ReportFile}
    /\ pc' = "done"
    /\ UNCHANGED <<Inputs, sales_df, stores_df, df, Aggregates,
                   report, error>>

Next ==
    \/ LoadData
    \/ CleanAndPrepareData
    \/ ExploratoryAnalysis
    \/ AnalyzeByRegionSegment
    \/ AnalyzeProducts
    \/ AnalyzeCategoriesMargins
    \/ AnalyzeOrderMode
    \/ SaveDashboard
    \/ WriteRegionalHtml
    \/ WriteMonthlyHtml
    \/ WriteSunburstHtml
    \/ GenerateInsightsReport
    \/ GenerateInsightsReportRaises
    \/ SaveReport

-----------------------------------------------------------------------------
(* The input files.  Each input set varies the columns one part of the     *)
(* pipeline reads and gives the other columns a value by row position.     *)

OrderIDs == <<"O1", "O2", "O3", "O4", "O5", "O6", "O7", "O8">>

Products == <<"Apples", "Bread", "Chairs", "Drills", "Eggs", "Forks", "Gloves">>

Odd(i) == i % 2 = 1

DefaultRow(i) ==
    [OrderID |-> OrderIDs[i],
     Product |-> IF Odd(i) THEN "Apples" ELSE "Chairs",
     Category |-> IF Odd(i) THEN "Food" ELSE "Home",
     City |-> IF Odd(i) THEN "Leeds" ELSE "York",
     Postal |-> IF Odd(i) THEN "LS1" ELSE "YO1",
     Region |-> IF Odd(i) THEN "North" ELSE "South",
     Quantity |-> 1,
     Sales |-> IF Odd(i) THEN 4 ELSE 5,
     Cost |-> 2,
     Discount |-> IF Odd(i) THEN 10 ELSE 25,
     OrderMode |-> IF Odd(i) THEN "Online" ELSE "In-Store"]

DefaultStores == <<[City |-> "Leeds", Postal |-> "LS1", Region |-> "East"]>>

\* The tables of n rows whose i-th row is one of variants[i].
RECURSIVE TablesOfLen(_, _)
TablesOfLen(n, variants) ==
    IF n = 0 THEN {<<>>}
    ELSE {Append(t, r) : t \in TablesOfLen(n - 1, variants), r \in variants[n]}

TablesUpTo(max, variants) == UNION {TablesOfLen(n, variants) : n \in 1..max}

RegionVariants ==
    [i \in 1..MaxRegionRows |->
        {[DefaultRow(i) EXCEPT !.City = v[1], !.Postal = v[2], !.Region = v[3]] :
            v \in {<<"Leeds", "LS1", DefaultRow(i).Region>>, <<"Leeds", "LS1", NA>>,
                   <<"Leeds", "YO1", DefaultRow(i).Region>>}}]

StoreRows ==
    {[City |-> k[1], Postal |-> k[2], Region |-> r] :
        k \in {<<"Leeds", "LS1">>, <<"York", "YO1">>}, r \in {"East", NA}}

StoreTables ==
    {<<>>} \cup TablesUpTo(MaxStores, [i \in 1..MaxStores |-> StoreRows])

Categories ==
    {NA, "", "Foo", "Food", "Food-Snacks", "food", "Home", "Homeware", "Home Appliances",
     "Kitchen", "Health", "Healthcare", "Beauty", "Grooming", "Cloth", "Clothing",
     "Clothing - Men", "Electronics"}

SegmentVariants ==
    [i \in 1..MaxSegmentRows |->
        {[DefaultRow(i) EXCEPT !.Category = c] : c \in Categories}]

MarginVariants ==
    [i \in 1..MaxMarginRows |->
        {[DefaultRow(i) EXCEPT !.Sales = s, !.Cost = c, !.Quantity = q] :
            s \in {0, 4}, c \in {-1, 0, 2, 6}, q \in {-1, 2}}]

ChannelVariants ==
    [i \in 1..MaxChannelRows |->
        {[DefaultRow(i) EXCEPT !.OrderMode = m, !.Sales = v[1], !.Cost = v[2],
                               !.Quantity = v[3]] :
            m \in {"Online", "In-Store", "Phone"},
            v \in {<<4, 2, 1>>, <<0, 0, 1>>, <<4, 6, 1>>}}]

ProductVariants ==
    [i \in 1..MaxProductRows |->
        {[DefaultRow(i) EXCEPT !.Product = p, !.Quantity = q,
                               !.Category = IF i = 1 THEN "Home" ELSE "Food"] :
            p \in {Products[i], Products[MaxProductRows + 1 - i]},
            q \in {i, i + 1}}]

InitRest ==
    /\ pc = "start"
    /\ sales_df = <<>>
    /\ stores_df = <<>>
    /\ df = <<>>
    /\ regional_summary = <<>>
    /\ segment_summary = <<>>
    /\ product_revenue = <<>>
    /\ top_products = <<>>
    /\ bottom_products = <<>>
    /\ category_margins = <<>>
    /\ order_mode_analysis = <<>>
    /\ report = <<>>
    /\ written = {}
    /\ error = "none"

InitRegion ==
    /\ stable_sort \in BOOLEAN
    /\ sales_file \in TablesUpTo(MaxRegionRows, RegionVariants)
    /\ stores_file \in StoreTables
    /\ InitRest

InitSegment ==
    /\ stable_sort \in BOOLEAN
    /\ sales_file \in TablesUpTo(MaxSegmentRows, SegmentVariants)
    /\ stores_file = DefaultStores
    /\ InitRest

InitMargin ==
    /\ stable_sort \in BOOLEAN
    /\ sales_file \in TablesUpTo(MaxMarginRows, MarginVariants)
    /\ stores_file = DefaultStores
    /\ InitRest

InitChannel ==
    /\ stable_sort \in BOOLEAN
    /\ sales_file \in TablesUpTo(MaxChannelRows, ChannelVariants)
    /\ stores_file = DefaultStores
    /\ InitRest

\* The product input set runs on a build whose sort keeps ties in order.
InitProducts ==
    /\ stable_sort = TRUE
    /\ sales_file \in TablesUpTo(MaxProductRows, ProductVariants)
    /\ stores_file = DefaultStores
    /\ InitRest

Init == InitRegion \/ InitSegment \/ InitMargin \/ InitChannel

Spec == Init /\ [][Next]_vars

SpecRegion == InitRegion /\ [][Next]_vars

SpecSegment == InitSegment /\ [][Next]_vars

SpecMargin == InitMargin /\ [][Next]_vars

SpecChannel == InitChannel /\ [][Next]_vars

SpecProducts == InitProducts /\ [][Next]_vars

-----------------------------------------------------------------------------
(* Properties of clean_and_prepare_data. *)

Prepared == pc \notin {"start", "loaded"}

\* The store rows with the (City, Postal Code) pair of a row.
StoresFor(row) ==
    {s \in Range(stores_df) : s.City = row.City /\ s.Postal = row.Postal}

\* The region a transaction row resolves to when joined with store row s.
ResolvedWith(row, s) == IF s.Region # NA THEN s.Region ELSE row.Region

\* C1, as stated: every enriched row has the store-table region whenever the
\* store table has a row with its (city, postal code) pair, and its own
\* original region when the store table has none.
C1_StoreRegionWheneverMatched ==
    Prepared =>
        \A i \in 1..Len(df) :
            IF StoresFor(df[i]) # {}
            THEN df[i].Region_Final \in {s.Region : s \in StoresFor(df[i])}
            ELSE df[i].Region_Final = df[i].Region

\* C1, as amended: every enriched row has the region of the store row it was
\* joined with when that row's region is not null, and the transaction's own
\* original region otherwise (no store row for the pair, or a null region in
\* the joined store row); every store row for the pair is joined.
C1_RegionFinalResolution ==
    Prepared =>
        /\ \A i \in 1..Len(df) :
              IF StoresFor(df[i]) # {}
              THEN \E s \in StoresFor(df[i]) :
                      df[i].Region_Final = ResolvedWith(df[i], s)
              ELSE df[i].Region_Final = df[i].Region
        /\ \A j \in 1..Len(sales_file) : \A s \in StoresFor(sales_file[j]) :
              \E i \in 1..Len(df) :
                  /\ df[i].OrderID = sales_file[j].OrderID
                  /\ df[i].Region = sales_file[j].Region
                  /\ df[i].Region_Final = ResolvedWith(sales_file[j], s)

\* A prepared table with a row that took a store region different from its
\* own, and a row without a store match that kept its own region.
C1_Witness ==
    /\ Prepared
    /\ \E i \in 1..Len(df) : \E s \in StoresFor(df[i]) :
          /\ s.Region # NA
          /\ s.Region # df[i].Region
          /\ df[i].Region_Final = s.Region
    /\ \E i \in 1..Len(df) :
          /\ StoresFor(df[i]) = {}
          /\ df[i].Region # NA
          /\ df[i].Region_Final = df[i].Region

\* C2: the left join keeps every transaction row, each transaction has
\* exactly one enriched row, and its resolved region is not null.
C2_OneNonNullRegionPerTransaction ==
    Prepared =>
        /\ Len(df) = Len(sales_file)
        /\ \A i \in 1..Len(df) :
              /\ df[i].OrderID = sales_file[i].OrderID
              /\ df[i].Region_Final # NA

SegmentNames ==
    {"Food & Beverages", "Home & Living", "Health & Beauty", "Fashion", "Other"}

\* C3: the segment of every enriched row follows from its category alone by
\* the first matching rule: prefix "Food", then {Home, Kitchen, Home
\* Appliances}, then {Health, Beauty, Grooming}, then prefix "Clothing", else
\* (a null category too) "Other"; it is one of the five names, and rows with
\* the same category have the same segment.
C3_SegmentByFirstMatch ==
    Prepared =>
        /\ \A i \in 1..Len(df) :
              LET c == df[i].Category
                  s == df[i].Segment
                  food == c # NA /\ Len(c) >= 4 /\ SubSeq(c, 1, 4) = "Food"
                  home == c \in {"Home", "Kitchen", "Home Appliances"}
                  health == c \in {"Health", "Beauty", "Grooming"}
                  clothing == c # NA /\ Len(c) >= 8 /\ SubSeq(c, 1, 8) = "Clothing"
              IN  /\ s \in SegmentNames
                  /\ food => s = "Food & Beverages"
                  /\ ~food /\ home => s = "Home & Living"
                  /\ ~food /\ ~home /\ health => s = "Health & Beauty"
                  /\ ~food /\ ~home /\ ~health /\ clothing => s = "Fashion"
                  /\ ~food /\ ~home /\ ~health /\ ~clothing => s = "Other"
                  /\ c = NA => s = "Other"
        /\ \A i, j \in 1..Len(df) :
              df[i].Category = df[j].Category => df[i].Segment = df[j].Segment

\* A prepared table with a "Food-Snacks" row in Food & Beverages and a row
\* with a null category in Other.
C3_Witness ==
    /\ Prepared
    /\ \E i, j \in 1..Len(df) :
          /\ df[i].Category = "Food-Snacks"
          /\ df[i].Segment = "Food & Beverages"
          /\ df[j].Category = NA
          /\ df[j].Segment = "Other"

\* C4, as stated: total sales is at least total revenue in every row with a
\* cost price of at least 0.
C4_SalesAtLeastRevenue ==
    Prepared =>
        \A i \in 1..Len(df) :
            df[i].Cost >= 0 => df[i].TotalSales >= df[i].TotalRevenue

\* C4, as amended: total sales is at least total revenue in every row with a
\* cost price of at least 0 and a quantity of at least 0.
C4_SalesAtLeastRevenueForNonNegativeQuantity ==
    Prepared =>
        \A i \in 1..Len(df) :
            df[i].Cost >= 0 /\ df[i].Quantity >= 0 =>
                /\ df[i].TotalSales = df[i].Sales * df[i].Quantity
                /\ df[i].TotalRevenue = (df[i].Sales - df[i].Cost) * df[i].Quantity
                /\ df[i].TotalSales >= df[i].TotalRevenue

\* A prepared row with a positive cost and quantity whose total sales exceed
\* its total revenue, beside a row with a negative cost where they do not.
C4_Witness ==
    /\ Prepared
    /\ \E i, j \in 1..Len(df) :
          /\ df[i].Cost > 0
          /\ df[i].Quantity > 0
          /\ df[i].TotalSales > df[i].TotalRevenue
          /\ df[j].Cost < 0
          /\ df[j].Quantity > 0
          /\ df[j].TotalSales < df[j].TotalRevenue

UndefinedMarginInTable ==
    \E i \in 1..Len(df) : df[i].Sales = 0 /\ ~IsFinite(df[i].ProfitMargin)

UndefinedMarginInAggregates ==
    \/ \E i \in 1..Len(product_revenue) : ~IsFinite(product_revenue[i].ProfitMargin)
    \/ \E i \in 1..Len(category_margins) : ~IsFinite(category_margins[i].ProfitMargin)
    \/ \E i \in 1..Len(report) : ~IsFinite(report[i].avg_margin)

\* C5: the undefined margin of a row with a sales price of 0 is never carried
\* into the enriched table and from there into a mean margin of the product
\* aggregate, of the category aggregate or of the report.
C5_UndefinedMarginNotPropagated ==
    ~(UndefinedMarginInTable /\ UndefinedMarginInAggregates)

\* C10: clean_and_prepare_data leaves the store table and the transaction
\* table it was given as they were loaded: same columns, same values.
C10_InputTablesUnchanged ==
    Prepared =>
        /\ stores_df = stores_file
        /\ Len(sales_df) = Len(sales_file)
        /\ \A i \in 1..Len(sales_df) :
              /\ DOMAIN sales_df[i] = DOMAIN sales_file[i]
              /\ \A c \in DOMAIN sales_file[i] : sales_df[i][c] = sales_file[i][c]

-----------------------------------------------------------------------------
(* Properties of the aggregates and of the report. *)

ChannelsOfInput == {sales_file[i].OrderMode : i \in 1..Len(sales_file)}

ChannelMissing == "Online" \notin ChannelsOfInput \/ "In-Store" \notin ChannelsOfInput

\* C6: when the data has no "Online" transaction or no "In-Store" one, the
\* run never generates or writes the report: report generation raises, and
\* the run ends there with the exception uncaught.
C6_MissingChannelFailsRun ==
    ChannelMissing =>
        /\ pc \notin {"reported", "done"}
        /\ report = <<>>
        /\ ReportFile \notin written
        /\ pc = "visualized" => ENABLED GenerateInsightsReportRaises
        /\ pc = "failed" => error \in {"KeyError", "IndexError"}

\* A run on data without one of the two channels, ended by the KeyError of
\* the channel lookup after the charts were written.
C6_Witness ==
    /\ ChannelMissing
    /\ pc = "failed"
    /\ error = "KeyError"
    /\ Dashboard \in written
    /\ ReportFile \notin written

ModesAnalyzed ==
    pc \in {"order_mode", "dashboard", "html_regional", "html_monthly", "visualized",
            "reported", "done", "failed"}

PctSum(col) == SumFloats(Column(order_mode_analysis, col))

\* |sum - 100| is at most 0.005 for each of the k rounded shares.
WithinRounding(sum, k) ==
    FloatLeq(FloatAbs(FloatAdd(sum, Int2Float(-100))), Reduce(5 * k, 1000))

\* C7, as stated: in every channel aggregate with at least one group the
\* 'Sales %' values sum to 100 up to rounding, and so do the 'Revenue %' values.
C7_SharesSumTo100 ==
    ModesAnalyzed /\ Len(order_mode_analysis) >= 1 =>
        /\ WithinRounding(PctSum("SalesPct"), Len(order_mode_analysis))
        /\ WithinRounding(PctSum("RevenuePct"), Len(order_mode_analysis))

\* C7, as amended: the 'Sales %' values sum to 100 up to rounding when the
\* total of 'Total Sales' over the channels is not 0, and the 'Revenue %'
\* values do when the total of 'Total Revenue' is not 0.
C7_SharesSumTo100WhenTotalNonZero ==
    ModesAnalyzed /\ Len(order_mode_analysis) >= 1 =>
        /\ SumInts(Column(df, "TotalSales")) # 0 =>
              WithinRounding(PctSum("SalesPct"), Len(order_mode_analysis))
        /\ SumInts(Column(df, "TotalRevenue")) # 0 =>
              WithinRounding(PctSum("RevenuePct"), Len(order_mode_analysis))

\* A channel aggregate of three groups with non-zero totals whose rounded
\* sales shares do not add up to 100 exactly.
C7_Witness ==
    /\ ModesAnalyzed
    /\ Len(order_mode_analysis) = 3
    /\ SumInts(Column(df, "TotalSales")) # 0
    /\ SumInts(Column(df, "TotalRevenue")) # 0
    /\ PctSum("SalesPct") # Int2Float(100)
    /\ WithinRounding(PctSum("SalesPct"), 3)

ProductsAnalyzed == pc \notin {"start", "loaded", "prepared", "explored", "regions"}

\* The first row of the enriched table that belongs to a product group.
FirstRow(key) ==
    CHOOSE i \in 1..Len(df) :
        /\ <<df[i].Product, df[i].Category>> = key
        /\ \A j \in 1..(i - 1) : <<df[j].Product, df[j].Category>> # key

\* The slice holds the TopN groups of the frame that come first when the
\* frame is ordered by revenue (descending or ascending), in that order, and
\* groups of equal revenue in the order of their first rows in the input.
IsRevenueSlice(slice, frame, descending) ==
    LET Before(a, b) == IF descending THEN a >= b ELSE a <= b
    IN  /\ Len(slice) = Min(TopN, Len(frame))
        /\ Range(slice) \subseteq Range(frame)
        /\ \A i, j \in 1..Len(slice) : i < j =>
              /\ slice[i] # slice[j]
              /\ Before(slice[i].TotalRevenue, slice[j].TotalRevenue)
              /\ slice[i].TotalRevenue = slice[j].TotalRevenue =>
                    FirstRow(slice[i].key) < FirstRow(slice[j].key)
        /\ \A r \in Range(frame) \ Range(slice) : \A i \in 1..Len(slice) :
              Before(slice[i].TotalRevenue, r.TotalRevenue)

\* C8: the top slice holds the five product groups of highest summed revenue
\* in non-increasing order, the bottom slice the five of lowest summed
\* revenue in non-decreasing order, and groups of equal revenue come in
\* input order in both.
C8_SlicesByRevenueTiesInInputOrder ==
    ProductsAnalyzed =>
        /\ IsRevenueSlice(top_products, product_revenue, TRUE)
        /\ IsRevenueSlice(bottom_products, product_revenue, FALSE)

RegionsAnalyzed == pc \notin {"start", "loaded", "prepared", "explored"}

CategoriesAnalyzed == ProductsAnalyzed /\ pc # "products"

NonIncreasingRevenue(frame) ==
    \A i \in 1..(Len(frame) - 1) : frame[i].TotalRevenue >= frame[i + 1].TotalRevenue

NonIncreasingMargin(frame) ==
    \A i \in 1..(Len(frame) - 1) :
        FloatLeq(frame[i + 1].ProfitMargin, frame[i].ProfitMargin)

\* C9: adjacent rows of the region summary and of the segment summary are
\* non-increasing in summed total revenue, and adjacent rows of the category
\* summary are non-increasing in mean profit margin.
C9_AggregatesSortedByKey ==
    /\ RegionsAnalyzed =>
          NonIncreasingRevenue(regional_summary) /\ NonIncreasingRevenue(segment_summary)
    /\ CategoriesAnalyzed => NonIncreasingMargin(category_margins)

-----------------------------------------------------------------------------
(* Order of the output artifacts in a run of main. *)

Charts == {Dashboard, RegionalHtml, MonthlyHtml, SunburstHtml}

AllArtifacts == Charts \cup {ReportFile}

\* C11: in every run of main the markdown report is written only after the
\* dashboard image and the three HTML charts have all been written: the step
\* that writes the report starts from a state where the four charts are
\* written.  So a run ended by an exception of report generation has the four
\* charts written and no report, on data without "Online" or "In-Store" such
\* an exception is what report generation does once the charts are written,
\* and a run that ends without an exception has all five artifacts written.
C11_ReportOnlyAfterCharts ==
    /\ [][(ReportFile \in written' /\ ReportFile \notin written)
              => (Charts \subseteq written)]_vars
    /\ [](ReportFile \in written => Charts \subseteq written)
    /\ [](pc = "failed" =>
              /\ error # "none"
              /\ written = Charts
              /\ report = <<>>)
    /\ [](pc = "visualized" /\ ChannelMissing =>
              /\ written = Charts
              /\ ENABLED GenerateInsightsReportRaises
              /\ ~ENABLED GenerateInsightsReport)
    /\ [](pc = "done" => error = "none" /\ written = AllArtifacts)

\* A run on data without one of the two channels, ended by the exception of
\* report generation with the four charts written and the report not written.
C11_Witness ==
    /\ ChannelMissing
    /\ pc = "failed"
    /\ error # "none"
    /\ Charts \subseteq written
    /\ ReportFile \notin written

\* A run that ended without an exception, all five artifacts written.
C11_SuccessfulRun ==
    /\ pc = "done"
    /\ error = "none"
    /\ written = AllArtifacts

====
